---- MODULE Spec2Model ----
(***************************************************************************)
(* A model of davidansgit/tasacodesnippet:                                 *)
(*   - src/cache.ts          TTL + version cache over Web Storage          *)
(*   - src/unnamed/part_000  dbConnect, the memoized mongoose connection   *)
(*   - src/middleware.ts     the authorized callback of the auth gate      *)
(*                                                                         *)
(***************************************************************************)
EXTENDS Integers, Sequences, FiniteSets, TLC

VARIABLES
    stores,        \* cache.ts: contents of localStorage and sessionStorage
    now,           \* cache.ts: the value Date.now() returns
    hasWindow,     \* cache.ts:44  typeof window !== "undefined"
    accessThrows,  \* cache.ts:49  backends whose property access throws
    nsets,         \* number of entries setCacheData has written so far
    last,          \* the last facade call: its name and what it returned
    lastWritten,   \* cache.ts:88  the cacheItem the most recent successful
                   \* setCacheData of the raced key built, as stored text
    cached,        \* part_000:7   globalThis.__mongoose = {promise, connection}
    promises,      \* part_000:19  the promises mongoose.connect returned, by attempt
    pc,            \* part_000:11  where each caller of dbConnect stands
    awaited,       \* part_000:22  the promise each suspended caller awaits
    returned,      \* part_000:31  what dbConnect last returned to each caller
    calls,         \* number of dbConnect calls each caller has made
    exited,        \* part_000:29  process.exit(1) was called
    path,          \* middleware.ts:13  req.nextUrl.pathname
    token,         \* middleware.ts:11  the session token, or none
    decision       \* middleware.ts:11  what the authorized callback returned

cacheVars == <<stores, now, hasWindow, accessThrows, nsets, last, lastWritten>>
dbVars == <<cached, promises, pc, awaited, returned, calls, exited>>
authVars == <<path, token, decision>>

vars == <<stores, now, hasWindow, accessThrows, nsets, last, lastWritten,
          cached, promises, pc, awaited, returned, calls, exited,
          path, token, decision>>

----------------------------------------------------------------------------
(* Bounds of the model *)

MaxClock == 1
MaxSets == 2
MaxCalls == 2

----------------------------------------------------------------------------
(* String.prototype.startsWith *)
StartsWith(s, p) == Len(s) >= Len(p) /\ SubSeq(s, 1, Len(p)) = p

CACHE_PREFIX == "tasa_cache_"

KeyA == CACHE_PREFIX \o "a"
KeyB == CACHE_PREFIX \o "b"
(* one character short of the prefix *)
KeyT == "tasa_cache"
Keys == {KeyA, KeyB, KeyT}

StorageTypes == {"localStorage", "sessionStorage"}

V1 == "1.0.0"
V2 == "2.0.0"
Versions == {V1, V2}

DEFAULT_TTL == 300000

DEFAULT_CACHE_CONFIG ==
    [ttl |-> DEFAULT_TTL, version |-> V1, storage |-> "localStorage"]

OptionFields == {"ttl", "version", "storage"}

(* CacheOptions: every field is optional, so an options object is a record
   over a subset of the fields. *)
NoOptions == [f \in {} |-> 0]

(* The options the modelled callers write with: the defaults, a negative
   ttl, a ttl of 0, another version, and a ttl of 0 in the other backend. *)
WriteOptions ==
    { NoOptions,
      [ttl |-> -1],
      [ttl |-> 0],
      [version |-> V2],
      [storage |-> "sessionStorage", ttl |-> 0] }

(* The options the modelled callers read with: any version, any backend. *)
ReadOptions ==
    { [f \in D |-> full[f]] :
        full \in [version : {V2}, storage : {"sessionStorage"}],
        D \in SUBSET {"version", "storage"} }

(* { ...DEFAULT_CACHE_CONFIG, ...options } *)
MergeConfig(options) ==
    [f \in OptionFields |->
        IF f \in DOMAIN options THEN options[f] ELSE DEFAULT_CACHE_CONFIG[f]]

----------------------------------------------------------------------------
(* JavaScript values used as payloads, and JSON *)

JsNull == <<"null">>
JsNaN == <<"number", "NaN">>
JsBigInt == <<"bigint", "1n">>
JsStrA == <<"string", "A">>
Payloads == {JsStrA, JsNaN, JsBigInt}

(* JSON.stringify throws a TypeError on a BigInt *)
Serializable(v) == v[1] # "bigint"

(* The value JSON.stringify writes for v and JSON.parse reads back:
   NaN is written as null. *)
ToJSON(v) == IF v = JsNaN THEN JsNull ELSE v

RECURSIVE NumLen(_)
(* length of String(n) *)
NumLen(n) ==
    IF n < 0 THEN 1 + NumLen(-n)
    ELSE IF n < 10 THEN 1 ELSE 1 + NumLen(n \div 10)

JSONLen(j) == IF j = JsNull THEN 4 ELSE Len(j[2]) + 2

(* What a slot of a Storage holds: nothing (getItem returns null), a text
   that is not JSON, or the JSON text of a CacheItem. *)
NoItem == [kind |-> "none"]
RawText(chars) == [kind |-> "raw", chars |-> chars]
EmptyText == RawText("")
DarkText == RawText("dark")

(* JSON.stringify(cacheItem) *)
Stringify(item) ==
    [kind |-> "json", data |-> ToJSON(item.data), timestamp |-> item.timestamp,
     expiresAt |-> item.expiresAt, version |-> item.version]

(* cachedData.length of
   {"data":D,"timestamp":T,"expiresAt":E,"version":"V"} *)
TextLen(text) ==
    IF text.kind = "raw" THEN Len(text.chars)
    ELSE 46 + JSONLen(text.data) + NumLen(text.timestamp)
            + NumLen(text.expiresAt) + Len(text.version) + 2

(* !cachedData : null and the empty string are falsy *)
Falsy(text) == text.kind = "none" \/ (text.kind = "raw" /\ Len(text.chars) = 0)

(* JSON.parse(cachedData) throws a SyntaxError *)
ParseThrows(text) == text.kind = "raw"

(* JSON.parse(cachedData) *)
Parse(text) ==
    [data |-> text.data, timestamp |-> text.timestamp,
     expiresAt |-> text.expiresAt, version |-> text.version]

----------------------------------------------------------------------------
(* cache.ts *)

NoStorage == "unavailable"

(* getStorage that hands out localStorage whatever it is asked for *)
getStorage_OneBackend(storageType) ==
    IF ~hasWindow THEN NoStorage
    ELSE IF storageType \in accessThrows THEN NoStorage
    ELSE "localStorage"

getStorage(storageType) ==
    IF ~hasWindow THEN NoStorage
    ELSE IF storageType \in accessThrows THEN NoStorage
    ELSE storageType

(* isExpired with the boundary instant counted as expired *)
isExpired_AtBoundary(item, t) == t >= item.expiresAt

isExpired(item, t) == t > item.expiresAt

(* isVersionOutdated that never reports a mismatch *)
isVersionOutdated_Never(item, currentVersion) == FALSE

isVersionOutdated(item, currentVersion) == item.version # currentVersion

(* storage.removeItem(key) *)
removeItem(st, storage, key) == [st EXCEPT ![storage][key] = NoItem]

(* Object.keys(storageObj) *)
ObjectKeys(st, storage) == {k \in Keys : st[storage][k] # NoItem}

(* Each facade function, on storages st at clock t: the value it returns
   (ret), the storages it leaves (st) and the source line of the return
   statement it leaves by (at). *)
Return(ret, st, at) == [ret |-> ret, st |-> st, at |-> at]

(* setCacheData that keeps the expiresAt of the entry it overwrites *)
setCacheData_KeepsExpiry(st, key, data, options, t, setItemThrows) ==
    LET config == MergeConfig(options)
        storage == getStorage(config.storage)
        expiresAt == IF st[storage][key].kind = "json"
                     THEN st[storage][key].expiresAt
                     ELSE t + config.ttl
        cacheItem == [data |-> data, timestamp |-> t,
                      expiresAt |-> expiresAt, version |-> config.version]
    IN  IF storage = NoStorage THEN Return(FALSE, st, 84)
        ELSE IF ~Serializable(data) THEN Return(FALSE, st, 101)
        ELSE IF setItemThrows THEN Return(FALSE, st, 101)
        ELSE Return(TRUE, [st EXCEPT ![storage][key] = Stringify(cacheItem)], 98)

(* setCacheData whose failing setItem has already replaced the value *)
setCacheData_WritesBeforeFailing(st, key, data, options, t, setItemThrows) ==
    LET config == MergeConfig(options)
        storage == getStorage(config.storage)
        cacheItem == [data |-> data, timestamp |-> t,
                      expiresAt |-> t + config.ttl, version |-> config.version]
        written == [st EXCEPT ![storage][key] = Stringify(cacheItem)]
    IN  IF storage = NoStorage THEN Return(FALSE, st, 84)
        ELSE IF ~Serializable(data) THEN Return(FALSE, st, 101)
        ELSE IF setItemThrows THEN Return(FALSE, written, 101)
        ELSE Return(TRUE, written, 98)

setCacheData(st, key, data, options, t, setItemThrows) ==
    LET config == MergeConfig(options)
        storage == getStorage(config.storage)
        cacheItem == [data |-> data, timestamp |-> t,
                      expiresAt |-> t + config.ttl, version |-> config.version]
    IN  IF storage = NoStorage THEN Return(FALSE, st, 84)
        ELSE IF ~Serializable(data) THEN Return(FALSE, st, 101)
        ELSE IF setItemThrows THEN Return(FALSE, st, 101)
        ELSE Return(TRUE, [st EXCEPT ![storage][key] = Stringify(cacheItem)], 98)

(* getCacheData that returns null for an expired entry but leaves it stored *)
getCacheData_KeepExpired(st, key, options, t) ==
    LET config == MergeConfig(options)
        storage == getStorage(config.storage)
    IN  IF storage = NoStorage THEN Return(JsNull, st, 118)
        ELSE LET cachedData == st[storage][key] IN
             IF Falsy(cachedData) THEN Return(JsNull, st, 123)
             ELSE IF ParseThrows(cachedData) THEN Return(JsNull, st, 143)
             ELSE LET cacheItem == Parse(cachedData) IN
                  IF isExpired(cacheItem, t)
                  THEN Return(JsNull, st, 131)
                  ELSE IF isVersionOutdated(cacheItem, config.version)
                  THEN Return(JsNull, removeItem(st, storage, key), 137)
                  ELSE Return(cacheItem.data, st, 140)

(* getCacheData that also removes a value it cannot parse *)
getCacheData_EvictsUnparsable(st, key, options, t) ==
    LET config == MergeConfig(options)
        storage == getStorage(config.storage)
    IN  IF storage = NoStorage THEN Return(JsNull, st, 118)
        ELSE LET cachedData == st[storage][key] IN
             IF Falsy(cachedData) THEN Return(JsNull, st, 123)
             ELSE IF ParseThrows(cachedData)
             THEN Return(JsNull, removeItem(st, storage, key), 143)
             ELSE LET cacheItem == Parse(cachedData) IN
                  IF isExpired(cacheItem, t)
                  THEN Return(JsNull, removeItem(st, storage, key), 131)
                  ELSE IF isVersionOutdated(cacheItem, config.version)
                  THEN Return(JsNull, removeItem(st, storage, key), 137)
                  ELSE Return(cacheItem.data, st, 140)

getCacheData(st, key, options, t) ==
    LET config == MergeConfig(options)
        storage == getStorage(config.storage)
    IN  IF storage = NoStorage THEN Return(JsNull, st, 118)
        ELSE LET cachedData == st[storage][key] IN
             IF Falsy(cachedData) THEN Return(JsNull, st, 123)
             ELSE IF ParseThrows(cachedData) THEN Return(JsNull, st, 143)
             ELSE LET cacheItem == Parse(cachedData) IN
                  IF isExpired(cacheItem, t)
                  THEN Return(JsNull, removeItem(st, storage, key), 131)
                  ELSE IF isVersionOutdated(cacheItem, config.version)
                  THEN Return(JsNull, removeItem(st, storage, key), 137)
                  ELSE Return(cacheItem.data, st, 140)

(* removeCacheData that reports whether the key was there *)
removeCacheData_ReportsPresence(st, key, storage) ==
    LET storageObj == getStorage(storage) IN
    IF storageObj = NoStorage THEN Return(FALSE, st, 157)
    ELSE Return(st[storageObj][key] # NoItem,
                removeItem(st, storageObj, key), 161)

removeCacheData(st, key, storage) ==
    LET storageObj == getStorage(storage) IN
    IF storageObj = NoStorage THEN Return(FALSE, st, 157)
    ELSE Return(TRUE, removeItem(st, storageObj, key), 161)

(* keys.filter((key) => key.startsWith("tasa_cache_")) *)
FilterCacheKeys(keys) == {k \in keys : StartsWith(k, CACHE_PREFIX)}

RECURSIVE RemoveAll(_, _, _)
(* keys.forEach((key) => storageObj.removeItem(key)) *)
RemoveAll(st, storage, keys) ==
    IF keys = {} THEN st
    ELSE LET k == CHOOSE x \in keys : TRUE IN
         RemoveAll(removeItem(st, storage, k), storage, keys \ {k})

(* clearAllCache that removes every key of the backend *)
clearAllCache_EveryKey(st, storage) ==
    LET storageObj == getStorage(storage) IN
    IF storageObj = NoStorage THEN Return(FALSE, st, 177)
    ELSE LET keys == ObjectKeys(st, storageObj)
         IN  Return(TRUE, RemoveAll(st, storageObj, keys), 188)

clearAllCache(st, storage) ==
    LET storageObj == getStorage(storage) IN
    IF storageObj = NoStorage THEN Return(FALSE, st, 177)
    ELSE LET keys == ObjectKeys(st, storageObj)
             cacheKeys == FilterCacheKeys(keys)
         IN  Return(TRUE, RemoveAll(st, storageObj, cacheKeys), 188)

ZeroStats == [totalKeys |-> 0, cacheKeys |-> 0, expiredKeys |-> 0, totalSize |-> 0]

RECURSIVE StatsScan_CorruptedIsExpired(_, _, _, _, _)
(* The scan of getCacheStats counting an unparsable value as expired *)
StatsScan_CorruptedIsExpired(st, storage, keys, t, acc) ==
    IF keys = {} THEN acc
    ELSE LET key == CHOOSE x \in keys : TRUE
             cachedData == st[storage][key]
             sized == [acc EXCEPT !.totalSize = @ + TextLen(cachedData)]
             next ==
                IF Falsy(cachedData) THEN acc
                ELSE IF ParseThrows(cachedData)
                     THEN [sized EXCEPT !.expiredKeys = @ + 1]
                ELSE IF isExpired(Parse(cachedData), t)
                     THEN [sized EXCEPT !.expiredKeys = @ + 1]
                     ELSE sized
         IN  StatsScan_CorruptedIsExpired(st, storage, keys \ {key}, t, next)

RECURSIVE StatsScan(_, _, _, _, _)
(* The forEach of getCacheStats over the keys still to visit, from the
   accumulators acc = [expiredKeys, totalSize]. *)
StatsScan(st, storage, keys, t, acc) ==
    IF keys = {} THEN acc
    ELSE LET key == CHOOSE x \in keys : TRUE
             cachedData == st[storage][key]
             sized == [acc EXCEPT !.totalSize = @ + TextLen(cachedData)]
             next ==
                IF Falsy(cachedData) THEN acc
                ELSE IF ParseThrows(cachedData) THEN sized
                ELSE IF isExpired(Parse(cachedData), t)
                     THEN [sized EXCEPT !.expiredKeys = @ + 1]
                     ELSE sized
         IN  StatsScan(st, storage, keys \ {key}, t, next)

(* getCacheStats that removes the expired entries it counts *)
getCacheStats_Sweeps(st, storage, t) ==
    LET storageObj == getStorage(storage) IN
    IF storageObj = NoStorage THEN Return(ZeroStats, st, 209)
    ELSE LET keys == ObjectKeys(st, storageObj)
             cacheKeys == FilterCacheKeys(keys)
             acc == StatsScan(st, storageObj, cacheKeys, t,
                              [expiredKeys |-> 0, totalSize |-> 0])
             expired == {k \in cacheKeys :
                            /\ ~ParseThrows(st[storageObj][k])
                            /\ isExpired(Parse(st[storageObj][k]), t)}
         IN  Return([totalKeys |-> Cardinality(keys),
                     cacheKeys |-> Cardinality(cacheKeys),
                     expiredKeys |-> acc.expiredKeys,
                     totalSize |-> acc.totalSize],
                    RemoveAll(st, storageObj, expired), 232)

getCacheStats(st, storage, t) ==
    LET storageObj == getStorage(storage) IN
    IF storageObj = NoStorage THEN Return(ZeroStats, st, 209)
    ELSE LET keys == ObjectKeys(st, storageObj)
             cacheKeys == FilterCacheKeys(keys)
             acc == StatsScan(st, storageObj, cacheKeys, t,
                              [expiredKeys |-> 0, totalSize |-> 0])
         IN  Return([totalKeys |-> Cardinality(keys),
                     cacheKeys |-> Cardinality(cacheKeys),
                     expiredKeys |-> acc.expiredKeys,
                     totalSize |-> acc.totalSize], st, 232)

RECURSIVE CleanupScan(_, _, _, _, _)
(* The forEach of cleanupExpiredCache over the keys still to visit, from
   the storages so far and removedCount. *)
CleanupScan(st, storage, keys, t, removedCount) ==
    IF keys = {} THEN Return(removedCount, st, 278)
    ELSE LET key == CHOOSE x \in keys : TRUE
             cachedData == st[storage][key]
             removed == removeItem(st, storage, key)
             rest == keys \ {key}
         IN  IF Falsy(cachedData)
             THEN CleanupScan(st, storage, rest, t, removedCount)
             ELSE IF ParseThrows(cachedData)
             THEN CleanupScan(removed, storage, rest, t, removedCount + 1)
             ELSE IF isExpired(Parse(cachedData), t)
             THEN CleanupScan(removed, storage, rest, t, removedCount + 1)
             ELSE CleanupScan(st, storage, rest, t, removedCount)

cleanupExpiredCache(st, storage, t) ==
    LET storageObj == getStorage(storage) IN
    IF storageObj = NoStorage THEN Return(0, st, 253)
    ELSE LET keys == ObjectKeys(st, storageObj)
             cacheKeys == FilterCacheKeys(keys)
         IN  CleanupScan(st, storageObj, cacheKeys, t, 0)

(* hasValidCache that removes what it finds invalid, as getCacheData does *)
hasValidCache_Evicts(st, key, options, t) ==
    LET g == getCacheData(st, key, options, t) IN
    Return(g.at = 140, g.st, 307)

hasValidCache(st, key, options, t) ==
    LET config == MergeConfig(options)
        storage == getStorage(config.storage)
    IN  IF storage = NoStorage THEN Return(FALSE, st, 296)
        ELSE LET cachedData == st[storage][key] IN
             IF Falsy(cachedData) THEN Return(FALSE, st, 302)
             ELSE IF ParseThrows(cachedData) THEN Return(FALSE, st, 312)
             ELSE LET cacheItem == Parse(cachedData) IN
                  Return(~isExpired(cacheItem, t)
                         /\ ~isVersionOutdated(cacheItem, config.version),
                         st, 307)

----------------------------------------------------------------------------
(* The facade calls as steps. last records the call: its name, the value
   returned, the return statement taken, whether the storages changed, for
   a setCacheData that wrote its entry its arguments, and for a
   cleanupExpiredCache the backend it was given. *)

Called(op, r) ==
    [op |-> op, ret |-> r.ret, at |-> r.at, changed |-> r.st # stores]

NoCall == [op |-> "none", ret |-> FALSE, at |-> 0, changed |-> FALSE]

(* SetStep leaves lastWritten to the action that takes it. *)
SetStep(key, data, options, setItemThrows) ==
    LET r == setCacheData(stores, key, data, options, now, setItemThrows) IN
    /\ nsets < MaxSets
    /\ stores' = r.st
    /\ nsets' = IF r.ret THEN nsets + 1 ELSE nsets
    /\ last' = IF r.ret
               THEN Called("set", r) @@
                        [key |-> key, data |-> data, options |-> options]
               ELSE Called("set", r)
    /\ UNCHANGED <<now, hasWindow, accessThrows, dbVars, authVars>>

GetStep(key, options) ==
    LET r == getCacheData(stores, key, options, now) IN
    /\ stores' = r.st
    /\ last' = Called("get", r)
    /\ UNCHANGED <<now, hasWindow, accessThrows, nsets, lastWritten,
                   dbVars, authVars>>

RemoveStep(key, storage) ==
    LET r == removeCacheData(stores, key, storage) IN
    /\ stores' = r.st
    /\ last' = Called("remove", r)
    /\ UNCHANGED <<now, hasWindow, accessThrows, nsets, lastWritten,
                   dbVars, authVars>>

ClearAllStep(storage) ==
    LET r == clearAllCache(stores, storage) IN
    /\ stores' = r.st
    /\ last' = Called("clearAll", r)
    /\ UNCHANGED <<now, hasWindow, accessThrows, nsets, lastWritten,
                   dbVars, authVars>>

StatsStep(storage) ==
    LET r == getCacheStats(stores, storage, now) IN
    /\ stores' = r.st
    /\ last' = Called("stats", r)
    /\ UNCHANGED <<now, hasWindow, accessThrows, nsets, lastWritten,
                   dbVars, authVars>>

CleanupStep(storage) ==
    LET r == cleanupExpiredCache(stores, storage, now) IN
    /\ stores' = r.st
    /\ last' = Called("cleanup", r) @@ [storage |-> storage]
    /\ UNCHANGED <<now, hasWindow, accessThrows, nsets, lastWritten,
                   dbVars, authVars>>

HasValidStep(key, options) ==
    LET r == hasValidCache(stores, key, options, now) IN
    /\ stores' = r.st
    /\ last' = Called("hasValid", r)
    /\ UNCHANGED <<now, hasWindow, accessThrows, nsets, lastWritten,
                   dbVars, authVars>>

SetCacheData ==
    \E key \in Keys, data \in Payloads, options \in WriteOptions,
       setItemThrows \in BOOLEAN :
        SetStep(key, data, options, setItemThrows) /\ UNCHANGED lastWritten

GetCacheData ==
    \E key \in Keys, options \in ReadOptions : GetStep(key, options)

RemoveCacheData ==
    \E key \in Keys, storage \in StorageTypes : RemoveStep(key, storage)

ClearAllCache == \E storage \in StorageTypes : ClearAllStep(storage)

GetCacheStats == \E storage \in StorageTypes : StatsStep(storage)

CleanupExpiredCache == \E storage \in StorageTypes : CleanupStep(storage)

HasValidCache ==
    \E key \in Keys, options \in ReadOptions : HasValidStep(key, options)

(* Date.now() advances between calls *)
Tick ==
    /\ now < MaxClock
    /\ now' = now + 1
    /\ last' = NoCall
    /\ UNCHANGED <<stores, hasWindow, accessThrows, nsets, lastWritten,
                   dbVars, authVars>>

EmptyStorage == [k \in Keys |-> NoItem]

(* What other code of the page left in localStorage before the page load:
   nothing; or an empty text and a text that is not JSON under prefixed
   keys, and a text that is not JSON under another key. *)
ForeignContents ==
    { EmptyStorage,
      [EmptyStorage EXCEPT ![KeyA] = EmptyText, ![KeyB] = DarkText,
                           ![KeyT] = DarkText] }

(* A page load: Date.now() is the model's origin, sessionStorage is new,
   localStorage holds what earlier code left. The code runs on the server
   (no window), in a browser, or in a browser that denies storage access. *)
CacheInit ==
    /\ now = 0
    /\ nsets = 0
    /\ last = NoCall
    /\ lastWritten = NoItem
    /\ \/ hasWindow = FALSE /\ accessThrows = {}
       \/ hasWindow = TRUE /\ accessThrows \in {{}, StorageTypes}
    /\ \E foreign \in ForeignContents :
         stores = [localStorage |-> foreign, sessionStorage |-> EmptyStorage]

CacheNext ==
    \/ SetCacheData
    \/ GetCacheData
    \/ RemoveCacheData
    \/ ClearAllCache
    \/ GetCacheStats
    \/ CleanupExpiredCache
    \/ HasValidCache
    \/ Tick

(* Requests racing on one key of one backend. The facade keeps no state
   between calls and a call has no suspension point, so a request is the
   sequence of whole calls it issues and the requests' calls interleave in
   any order. *)
RaceKey == KeyA
RaceStorage == "localStorage"

(* Some request calls setCacheData on the raced key. *)
RaceSet ==
    \E data \in Payloads, setItemThrows \in BOOLEAN,
       options \in {w \in WriteOptions : MergeConfig(w).storage = RaceStorage} :
        LET r == setCacheData(stores, RaceKey, data, options, now,
                              setItemThrows)
            config == MergeConfig(options)
            cacheItem == [data |-> data, timestamp |-> now,
                          expiresAt |-> now + config.ttl,
                          version |-> config.version]
        IN  /\ SetStep(RaceKey, data, options, setItemThrows)
            /\ lastWritten' = IF r.ret THEN Stringify(cacheItem)
                                       ELSE lastWritten

(* Some request calls getCacheData on the raced key. *)
RaceGet ==
    \E options \in {w \in ReadOptions : MergeConfig(w).storage = RaceStorage} :
        GetStep(RaceKey, options)

RaceNext ==
    \/ RaceSet
    \/ RaceGet
    \/ Tick

----------------------------------------------------------------------------
(* dbconnect (src/unnamed/part_000) *)

Callers == {"c1", "c2", "c3"}

(* cached.promise and cached.connection are null *)
NoPromise == 0
NoConnection == 0

(* The connection handle the promise of attempt i resolves to *)
Handle(i) == i

(* A dbConnect that connects whenever no connection is cached yet *)
NeedsConnect_Always(c) == TRUE

(* if (!cached.promise) { cached.promise = mongoose.connect(MONGODB_URI, opts) } *)
NeedsConnect(c) == c.promise = NoPromise

(* The try block's assignment, written so that it forgets the promise *)
Resolved_ForgetsPromise(c, h) == [promise |-> NoPromise, connection |-> h]

(* cached.connection = await cached.promise *)
Resolved(c, h) == [c EXCEPT !.connection = h]

(* A catch block that leaves the rejected promise cached *)
Reset_KeepsPromise(c) == [c EXCEPT !.connection = NoConnection]

(* cached.promise = null; cached.connection = null *)
Reset(c) == [promise |-> NoPromise, connection |-> NoConnection]

(* dbConnect up to its await: return the cached connection, or start an
   attempt if none is pending and suspend on cached.promise. *)
DbConnectCall(caller) ==
    /\ ~exited
    /\ pc[caller] = "idle"
    /\ calls[caller] < MaxCalls
    /\ calls' = [calls EXCEPT ![caller] = @ + 1]
    /\ IF cached.connection # NoConnection
       THEN /\ returned' = [returned EXCEPT ![caller] = cached.connection]
            /\ UNCHANGED <<cached, promises, pc, awaited>>
       ELSE LET start == NeedsConnect(cached)
                promise == IF start THEN Len(promises) + 1 ELSE cached.promise
            IN  /\ promises' = IF start THEN Append(promises, "pending")
                                        ELSE promises
                /\ cached' = [cached EXCEPT !.promise = promise]
                /\ awaited' = [awaited EXCEPT ![caller] = promise]
                /\ pc' = [pc EXCEPT ![caller] = "awaiting"]
                /\ UNCHANGED returned
    /\ UNCHANGED <<exited, cacheVars, authVars>>

(* mongoose.connect succeeds: its promise is fulfilled *)
Fulfil(i) ==
    /\ ~exited
    /\ promises[i] = "pending"
    /\ promises' = [promises EXCEPT ![i] = "fulfilled"]
    /\ UNCHANGED <<cached, pc, awaited, returned, calls, exited,
                   cacheVars, authVars>>

(* mongoose.connect fails: its promise is rejected *)
Reject(i) ==
    /\ ~exited
    /\ promises[i] = "pending"
    /\ promises' = [promises EXCEPT ![i] = "rejected"]
    /\ UNCHANGED <<cached, pc, awaited, returned, calls, exited,
                   cacheVars, authVars>>

(* dbConnect from its await on: the try block's assignment and the return,
   or the catch block. *)
DbConnectResume(caller) ==
    /\ ~exited
    /\ pc[caller] = "awaiting"
    /\ promises[awaited[caller]] # "pending"
    /\ IF promises[awaited[caller]] = "fulfilled"
       THEN /\ cached' = Resolved(cached, Handle(awaited[caller]))
            /\ returned' = [returned EXCEPT ![caller] = Handle(awaited[caller])]
            /\ pc' = [pc EXCEPT ![caller] = "idle"]
            /\ UNCHANGED exited
       ELSE /\ cached' = Reset(cached)
            /\ exited' = TRUE
            /\ pc' = [pc EXCEPT ![caller] = "exited"]
            /\ UNCHANGED returned
    /\ UNCHANGED <<promises, awaited, calls, cacheVars, authVars>>

DbInit ==
    /\ cached = [promise |-> NoPromise, connection |-> NoConnection]
    /\ promises = << >>
    /\ pc = [c \in Callers |-> "idle"]
    /\ awaited = [c \in Callers |-> NoPromise]
    /\ returned = [c \in Callers |-> NoConnection]
    /\ calls = [c \in Callers |-> 0]
    /\ exited = FALSE

DbNext ==
    \/ \E caller \in Callers : DbConnectCall(caller)
    \/ \E i \in DOMAIN promises : Fulfil(i)
    \/ \E i \in DOMAIN promises : Reject(i)
    \/ \E caller \in Callers : DbConnectResume(caller)

----------------------------------------------------------------------------
(* middleware.ts *)

AUTH_PREFIX == "/auth/"
DASHBOARD_PREFIX == "/dashboard"
PROFILE_PREFIX == "/profile"

PathHeads ==
    { "/auth",
      "/dashboard",
      "/profile",
      "/public",
      "/api/protected",
      "/api" }

PathTails ==
    { "",
      "/",
      "/login",
      "/settings",
      "/info",
      "x" }

Paths == {h \o t : h \in PathHeads, t \in PathTails}

NoToken == "null"
Tokens == {NoToken, "jwt:user", "jwt:admin"}

(* !!token *)
Truthy(tok) == tok # NoToken

(* The authorized callback denying by default *)
authorized_DefaultDeny(tok, pathname) ==
    IF StartsWith(pathname, AUTH_PREFIX) THEN TRUE
    ELSE Truthy(tok)

(* callbacks.authorized({ token, req }) *)
authorized(tok, pathname) ==
    IF StartsWith(pathname, AUTH_PREFIX) THEN TRUE
    ELSE IF \/ StartsWith(pathname, DASHBOARD_PREFIX)
            \/ StartsWith(pathname, PROFILE_PREFIX)
         THEN Truthy(tok)
         ELSE TRUE

(* config.matcher: the requests the middleware runs on *)
matcher == {"/dashboard/:path*", "/profile/:path*", "/api/protected/:path*"}

PATH_WILDCARD == "/:path*"

(* A matcher pattern base/:path* selects base itself and every path below
   it. *)
MatchesPattern(pathname, pattern) ==
    LET base == SubSeq(pattern, 1, Len(pattern) - Len(PATH_WILDCARD)) IN
    pathname = base \/ StartsWith(pathname, base \o "/")

Selected(pathname) ==
    \E pattern \in matcher : MatchesPattern(pathname, pattern)

Undecided == [done |-> FALSE, ret |-> FALSE]

(* withAuth calls the authorized callback on the request *)
Authorized ==
    /\ ~decision.done
    /\ decision' = [done |-> TRUE, ret |-> authorized(token, path)]
    /\ UNCHANGED <<path, token, cacheVars, dbVars>>

AuthInit ==
    /\ path \in Paths
    /\ token \in Tokens
    /\ decision = Undecided

AuthNext == Authorized

----------------------------------------------------------------------------
(* The three subsystems share no state; each is checked from its own initial
   states with the other two at rest. *)

CacheIdle ==
    /\ now = 0
    /\ nsets = 0
    /\ last = NoCall
    /\ lastWritten = NoItem
    /\ hasWindow = FALSE
    /\ accessThrows = {}
    /\ stores = [s \in StorageTypes |-> EmptyStorage]

AuthIdle ==
    /\ path = "/"
    /\ token = NoToken
    /\ decision = Undecided

Init == CacheInit /\ DbInit /\ AuthIdle
Next == CacheNext
Spec == Init /\ [][Next]_vars

SpecRace == Init /\ [][RaceNext]_vars

InitDb == CacheIdle /\ DbInit /\ AuthIdle
SpecDb == InitDb /\ [][DbNext]_vars

(* The event loop runs the continuation of an await once its promise is
   settled. *)
SpecDbFair ==
    SpecDb /\ WF_vars(\E caller \in Callers : DbConnectResume(caller))

InitAuth == CacheIdle /\ DbInit /\ AuthInit
SpecAuth == InitAuth /\ [][AuthNext]_vars

----------------------------------------------------------------------------
(* Properties of the cache facade (checked under Spec) *)

Available(storageType) == getStorage(storageType) # NoStorage

StorageOf(options) == MergeConfig(options).storage

(* Options naming a version and a backend explicitly *)
ReadWith(version, storage) == [version |-> version, storage |-> storage]

(* The instants at which a later call can run, one past the clock's bound
   included *)
Instants(from) == from..(MaxClock + 1)

(* On storages st, every getCacheData(key, options) issued from instant
   `from` on and not after the stored entry's expiresAt returns data and
   leaves the storages as they are. *)
RoundTrips(st, key, data, options, from) ==
    LET entry == st[StorageOf(options)][key] IN
    \A t \in Instants(from) :
        t <= entry.expiresAt =>
            LET g == getCacheData(st, key, options, t) IN
            g.ret = data /\ g.st = st

(* C1, as stated: for every key, payload and options, with the selected
   backend available, setCacheData returns true and a getCacheData with the
   same options, issued while the clock has not passed the entry's expiresAt,
   returns exactly the payload and leaves the entry stored. *)
C1_EveryPayloadRoundTrips ==
    (last.op = "set" /\ last.at # 84) =>
        /\ last.ret = TRUE
        /\ RoundTrips(stores, last.key, last.data, last.options, now)

(* JSON.stringify accepts v and JSON.parse gives v back *)
JsonExact(v) == Serializable(v) /\ ToJSON(v) = v

(* C1, amended: for every key, every payload that JSON represents exactly
   and every options, with the selected backend available and its setItem
   not throwing, setCacheData returns true (first conjunct, in every
   reachable state) and a getCacheData with the same options, issued while
   the clock has not passed the entry's expiresAt, returns exactly the
   payload and leaves the entry stored (second conjunct, after every
   setCacheData that wrote). *)
C1_JsonPayloadRoundTrips ==
    /\ \A key \in Keys, data \in Payloads, options \in WriteOptions :
            (Available(StorageOf(options)) /\ JsonExact(data)) =>
                setCacheData(stores, key, data, options, now, FALSE).ret = TRUE
    /\ (last.op = "set" /\ last.ret = TRUE /\ JsonExact(last.data)) =>
            RoundTrips(stores, last.key, last.data, last.options, now)

(* A getCacheData has returned the string payload from a stored entry. *)
C1_Witness == last.op = "get" /\ last.at = 140 /\ last.ret = JsStrA

(* What getCacheData(key, options) does to an entry it must not serve:
   it returns null and the key is gone from the backend. *)
NullAndEvicted(g, key, storage) ==
    g.ret = JsNull /\ g.st[storage][key] = NoItem

(* C2: an entry written with ttl = t is expired once more than t ms have
   elapsed since the set: a getCacheData on its key then returns null, with
   any version, and removes the key, so that a later read at any clock value
   and with any version returns null too. First conjunct: the reads that can
   follow a setCacheData that has just written. Second conjunct: in every
   reachable state, a getCacheData of a key that holds an expired entry. *)
C2_ExpiredReadReturnsNullAndEvicts ==
    /\ (last.op = "set" /\ last.ret = TRUE) =>
            LET cfg == MergeConfig(last.options) IN
            \A elapsed \in {cfg.ttl + 1, cfg.ttl + 2}, v \in Versions :
                elapsed >= 0 =>
                    LET g == getCacheData(stores, last.key,
                                ReadWith(v, cfg.storage), now + elapsed)
                    IN  /\ NullAndEvicted(g, last.key, cfg.storage)
                        /\ \A t2 \in Instants(0), v2 \in Versions :
                              getCacheData(g.st, last.key,
                                  ReadWith(v2, cfg.storage), t2).ret = JsNull
    /\ \A key \in Keys, options \in ReadOptions :
            LET s == StorageOf(options) IN
            (Available(s) /\ stores[s][key].kind = "json"
                /\ now > stores[s][key].expiresAt)
            => NullAndEvicted(getCacheData(stores, key, options, now), key, s)

(* A getCacheData has found an expired entry, and removed it. *)
C2_Witness == last.op = "get" /\ last.at = 131 /\ last.changed /\ last.ret = JsNull

(* C3: an unexpired entry written with version v1 and read with another
   version v2 gives null and is removed, so that a following read with v1
   gives null too. First conjunct: the reads that can follow a setCacheData
   that has just written. Second conjunct: in every reachable state, a
   getCacheData of a key that holds an unexpired entry of another version. *)
C3_VersionMismatchReturnsNullAndEvicts ==
    /\ (last.op = "set" /\ last.ret = TRUE) =>
            LET cfg == MergeConfig(last.options)
                entry == stores[cfg.storage][last.key]
            IN  \A t \in Instants(now), v2 \in Versions \ {cfg.version} :
                    t <= entry.expiresAt =>
                        LET g == getCacheData(stores, last.key,
                                    ReadWith(v2, cfg.storage), t)
                        IN  /\ NullAndEvicted(g, last.key, cfg.storage)
                            /\ getCacheData(g.st, last.key,
                                  ReadWith(cfg.version, cfg.storage), t).ret
                                    = JsNull
    /\ \A key \in Keys, options \in ReadOptions :
            LET s == StorageOf(options) IN
            (Available(s) /\ stores[s][key].kind = "json"
                /\ now <= stores[s][key].expiresAt
                /\ stores[s][key].version # MergeConfig(options).version)
            => NullAndEvicted(getCacheData(stores, key, options, now), key, s)

(* A getCacheData has found an unexpired entry of another version, and
   removed it. *)
C3_Witness == last.op = "get" /\ last.at = 137 /\ last.changed /\ last.ret = JsNull

(* C6: hasValidCache(key, options) returns true iff the selected backend
   holds under key a parsable entry that is not expired and has the
   configured version, and in every case it leaves both backends as they
   were. *)
C6_HasValidCacheIsExactAndReadOnly ==
    /\ \A key \in Keys, options \in ReadOptions :
            LET r == hasValidCache(stores, key, options, now)
                s == StorageOf(options)
            IN  /\ r.st = stores
                /\ r.ret = TRUE <=>
                        /\ Available(s)
                        /\ stores[s][key].kind = "json"
                        /\ now <= stores[s][key].expiresAt
                        /\ stores[s][key].version = MergeConfig(options).version
    /\ last.op = "hasValid" => ~last.changed

(* A hasValidCache has returned true. *)
C6_Witness == last.op = "hasValid" /\ last.ret = TRUE /\ last.at = 307

PrefixedKeys == {k \in Keys : StartsWith(k, "tasa_cache_")}

OtherStorage(s) == CHOOSE o \in StorageTypes : o # s

(* C7: clearAllCache(s) on an available backend returns true; after it
   getCacheStats(s).cacheKeys is 0 and no prefixed key remains in s; every
   other key of s and every key of the other backend keeps its value. *)
C7_ClearAllRemovesExactlyThePrefixedKeys ==
    /\ \A s \in StorageTypes :
            Available(s) =>
                LET r == clearAllCache(stores, s) IN
                /\ r.ret = TRUE
                /\ getCacheStats(r.st, s, now).ret.cacheKeys = 0
                /\ \A k \in PrefixedKeys : r.st[s][k] = NoItem
                /\ \A k \in Keys \ PrefixedKeys : r.st[s][k] = stores[s][k]
                /\ r.st[OtherStorage(s)] = stores[OtherStorage(s)]
    /\ (last.op = "clearAll" /\ last.ret = TRUE) =>
            \E s \in StorageTypes : \A k \in PrefixedKeys : stores[s][k] = NoItem

(* A clearAllCache of localStorage has removed a key; the key without the
   prefix is still there, and so is an entry of sessionStorage. *)
C7_Witness ==
    /\ last.op = "clearAll" /\ last.ret = TRUE /\ last.changed
    /\ \A k \in PrefixedKeys : stores["localStorage"][k] = NoItem
    /\ stores["localStorage"][KeyT] # NoItem
    /\ stores["sessionStorage"][KeyA] # NoItem

(* C8: removeCacheData(key, s) returns true whenever backend s is
   available, whether or not the key was present, and whatever the key held
   a following getCacheData(key) on s returns null, for every version. *)
C8_RemoveThenGetIsNull ==
    \A key \in Keys, s \in StorageTypes :
        Available(s) =>
            LET r == removeCacheData(stores, key, s) IN
            /\ r.ret = TRUE
            /\ \A v \in Versions, t \in Instants(now) :
                    getCacheData(r.st, key, ReadWith(v, s), t).ret = JsNull

(* A removeCacheData has removed a key that was present. *)
C8_Witness == last.op = "remove" /\ last.ret = TRUE /\ last.changed

(* C9, as stated: every entry in either backend has
   expiresAt >= timestamp, whatever ttl it was written with. *)
C9_ExpiresAtNotBeforeTimestamp ==
    \A s \in StorageTypes, k \in Keys :
        stores[s][k].kind = "json" =>
            stores[s][k].expiresAt >= stores[s][k].timestamp

(* The prefixed keys of backend s whose value JSON.parse rejects *)
CorruptedKeys(s) ==
    {k \in PrefixedKeys : stores[s][k] # NoItem /\ ParseThrows(stores[s][k])}

(* getCacheStats(s) now, and with key k taken out of s first *)
StatsNow(s) == getCacheStats(stores, s, now).ret
StatsWithout(s, k) == getCacheStats(removeItem(stores, s, k), s, now).ret

(* C10, as stated: an unparsable value under a prefixed key adds 0 to
   expiredKeys and 0 to totalSize: what a getCacheStats of backend s has
   returned is what it would be with the key absent. *)
C10_CorruptedKeyAddsNothing ==
    last.op = "stats" =>
        \A s \in StorageTypes :
            (Available(s) /\ last.ret = StatsNow(s)) =>
                \A k \in CorruptedKeys(s) :
                    /\ last.ret.expiredKeys = StatsWithout(s, k).expiredKeys
                    /\ last.ret.totalSize = StatsWithout(s, k).totalSize

(* C10, amended: an unparsable value under a prefixed key adds 0 to
   expiredKeys and the length of its text to totalSize; the scan goes on,
   and expiredKeys is the number of parsable prefixed entries that are
   expired. First conjunct: getCacheStats in every reachable state. Second
   conjunct: what a getCacheStats step has returned is that. *)
C10_CorruptedKeyAddsItsLength ==
    /\ \A s \in StorageTypes :
            Available(s) =>
                /\ \A k \in CorruptedKeys(s) :
                    /\ StatsNow(s).expiredKeys = StatsWithout(s, k).expiredKeys
                    /\ StatsNow(s).totalSize =
                            StatsWithout(s, k).totalSize + TextLen(stores[s][k])
                /\ StatsNow(s).expiredKeys =
                        Cardinality({k \in PrefixedKeys :
                            /\ stores[s][k].kind = "json"
                            /\ now > stores[s][k].expiresAt})
    /\ (last.op = "stats" /\ last.at = 232) =>
            /\ ~last.changed
            /\ \E s \in StorageTypes : last.ret = StatsNow(s)

(* A getCacheStats of localStorage has run over an unparsable prefixed
   value and a parsable prefixed entry. *)
C10_Witness ==
    /\ last.op = "stats" /\ last.at = 232
    /\ stores["localStorage"][KeyB] = DarkText
    /\ stores["localStorage"][KeyA].kind = "json"
    /\ stores["localStorage"][KeyT] # NoItem
    /\ last.ret.totalKeys = Cardinality(Keys)
    /\ last.ret.totalSize > TextLen(DarkText)

(* The prefixed keys that backend s holds with a value cleanupExpiredCache
   is to delete at instant t: one JSON.parse rejects, or an entry past its
   expiresAt. *)
ExpiredOrUnparsable(s, t) ==
    {k \in PrefixedKeys :
        /\ stores[s][k] # NoItem
        /\ \/ ParseThrows(stores[s][k])
           \/ isExpired(Parse(stores[s][k]), t)}

(* C11, as stated: after cleanupExpiredCache(s) has run on an available
   backend, no prefixed key of s holds an expired entry or a value that
   JSON.parse rejects, and getCacheStats(s).expiredKeys is 0. *)
C11_CleanupLeavesNoExpiredOrUnparsable ==
    (last.op = "cleanup" /\ last.at = 278) =>
        /\ ExpiredOrUnparsable(last.storage, now) = {}
        /\ StatsNow(last.storage).expiredKeys = 0

(* Backend s cannot be had: there is no window, or reading window[s]
   throws. *)
Unavailable(s) == ~hasWindow \/ s \in accessThrows

(* The call returned ret and changed nothing. *)
FailsWith(r, ret) == r.ret = ret /\ r.st = stores

(* C12: every operation returns its safe default and changes nothing when
   the selected backend is unavailable (false, null, false, false, the
   all-zero record, 0, false), and setCacheData returns false and leaves
   every stored value as it was when serialization or setItem throws. First
   two conjuncts: the calls in every reachable state. Third: every call that
   has left by a failure return changed nothing. *)
C12_FailuresYieldSafeDefaults ==
    /\ \A s \in StorageTypes :
            Unavailable(s) =>
                /\ \A key \in Keys, data \in Payloads, thr \in BOOLEAN,
                      options \in {o \in WriteOptions : StorageOf(o) = s} :
                        FailsWith(setCacheData(stores, key, data, options,
                                               now, thr), FALSE)
                /\ \A key \in Keys,
                      options \in {o \in ReadOptions : StorageOf(o) = s} :
                        /\ FailsWith(getCacheData(stores, key, options, now),
                                     JsNull)
                        /\ FailsWith(hasValidCache(stores, key, options, now),
                                     FALSE)
                /\ \A key \in Keys :
                        FailsWith(removeCacheData(stores, key, s), FALSE)
                /\ FailsWith(clearAllCache(stores, s), FALSE)
                /\ FailsWith(getCacheStats(stores, s, now), ZeroStats)
                /\ FailsWith(cleanupExpiredCache(stores, s, now), 0)
    /\ \A key \in Keys, data \in Payloads, options \in WriteOptions :
            FailsWith(setCacheData(stores, key, data, options, now, TRUE),
                      FALSE)
    /\ last.at \in {84, 101, 118, 143, 157, 177, 209, 253, 296, 312}
            => ~last.changed

(* getCacheStats has returned the all-zero record for a localStorage that
   holds values but cannot be read. *)
C12_Witness ==
    /\ last.op = "stats" /\ last.at = 209 /\ last.ret = ZeroStats
    /\ hasWindow /\ "localStorage" \in accessThrows
    /\ stores["localStorage"][KeyB] = DarkText

(* C15: getCacheData removes the key only when it finds an expired entry
   or an entry of another version. On an available backend: an unparsable
   value gives null and stays; an absent key gives null and nothing changes;
   a valid entry gives its payload and stays as it is; an entry that is
   expired, of another version or both gives null and is removed; and
   whatever is under the key, the call changes nothing else. Last conjunct:
   a getCacheData that changed the backend left by one of the two evicting
   returns. *)
C15_GetEvictsOnlyExpiredOrMismatched ==
    /\ \A key \in Keys, options \in ReadOptions :
            LET s == StorageOf(options)
                v == MergeConfig(options).version
                held == stores[s][key]
                g == getCacheData(stores, key, options, now)
            IN  Available(s) =>
                /\ g.st \in {stores, removeItem(stores, s, key)}
                /\ held = NoItem => g.ret = JsNull /\ g.st = stores
                /\ held.kind = "raw" => g.ret = JsNull /\ g.st = stores
                /\ held.kind = "json" =>
                        IF now > held.expiresAt \/ held.version # v
                        THEN g.ret = JsNull /\ g.st[s][key] = NoItem
                        ELSE g.ret = held.data /\ g.st = stores
    /\ (last.op = "get" /\ last.changed) => last.at \in {131, 137}
    /\ (last.op = "get" /\ last.at \in {123, 140, 143}) => ~last.changed

(* A getCacheData has found a value it cannot parse and left it there. *)
C15_Witness ==
    /\ last.op = "get" /\ last.at = 143 /\ ~last.changed
    /\ last.ret = JsNull
    /\ stores["localStorage"][KeyB] = DarkText

(* The number of expired prefixed entries getCacheStats(s) counts at
   instant t, on storages st *)
ExpiredCount(st, s, t) == getCacheStats(st, s, t).ret.expiredKeys

(* C16: the four readers agree on the expiry boundary. For every stored
   entry (for cleanupExpiredCache and getCacheStats, which scan the
   prefixed keys only: every entry under a prefixed key), at the instant
   equal to its expiresAt a getCacheData with its version returns the
   payload, hasValidCache returns true, cleanupExpiredCache leaves it and
   getCacheStats does not count it; at a later instant getCacheData returns
   null, hasValidCache returns false, cleanupExpiredCache deletes it and
   getCacheStats counts it. *)
C16_ExpiryBoundaryIsStrictAndUniform ==
    \A s \in StorageTypes, key \in Keys :
        (Available(s) /\ stores[s][key].kind = "json") =>
            LET entry == stores[s][key]
                options == ReadWith(entry.version, s)
                without == removeItem(stores, s, key)
                at == entry.expiresAt
            IN  /\ getCacheData(stores, key, options, at).ret = entry.data
                /\ hasValidCache(stores, key, options, at).ret = TRUE
                /\ \A late \in {at + 1, at + 2} :
                        /\ getCacheData(stores, key, options, late).ret
                                = JsNull
                        /\ hasValidCache(stores, key, options, late).ret
                                = FALSE
                /\ key \in PrefixedKeys =>
                        /\ cleanupExpiredCache(stores, s, at).st[s][key]
                                = entry
                        /\ ExpiredCount(stores, s, at)
                                = ExpiredCount(without, s, at)
                        /\ \A late \in {at + 1, at + 2} :
                            /\ cleanupExpiredCache(stores, s, late).st[s][key]
                                    = NoItem
                            /\ ExpiredCount(stores, s, late)
                                    = ExpiredCount(without, s, late) + 1

(* The entries stored in either backend *)
StoredEntries ==
    {<<s, k>> \in StorageTypes \X Keys : stores[s][k].kind = "json"}

(* hasValidCache has returned true for the only stored entry, at the
   instant equal to its expiresAt. *)
C16_Witness ==
    /\ last.op = "hasValid" /\ last.ret = TRUE
    /\ Cardinality(StoredEntries) = 1
    /\ \A e \in StoredEntries : stores[e[1]][e[2]].expiresAt = now

(* C18: getCacheStats(s) changes neither backend; on an available backend
   totalKeys is the number of keys of s, cacheKeys the number of those that
   start with "tasa_cache_", expiredKeys the number of prefixed parsable
   entries with now > expiresAt; and expiredKeys <= cacheKeys <= totalKeys
   in what it returns. *)
C18_StatsAreReadOnlyAndOrdered ==
    /\ \A s \in StorageTypes :
            LET r == getCacheStats(stores, s, now) IN
            /\ r.st = stores
            /\ r.ret.expiredKeys <= r.ret.cacheKeys
            /\ r.ret.cacheKeys <= r.ret.totalKeys
            /\ Available(s) =>
                /\ r.ret.totalKeys =
                        Cardinality({k \in Keys : stores[s][k] # NoItem})
                /\ r.ret.cacheKeys =
                        Cardinality({k \in PrefixedKeys :
                                        stores[s][k] # NoItem})
                /\ r.ret.expiredKeys =
                        Cardinality({k \in PrefixedKeys :
                                        /\ stores[s][k].kind = "json"
                                        /\ now > stores[s][k].expiresAt})
    /\ last.op = "stats" =>
            /\ ~last.changed
            /\ last.ret.expiredKeys <= last.ret.cacheKeys
            /\ last.ret.cacheKeys <= last.ret.totalKeys

(* A getCacheStats has counted an expired entry and left it stored, in a
   backend that also holds a key without the prefix. *)
C18_Witness ==
    /\ last.op = "stats" /\ ~last.changed
    /\ last.ret.expiredKeys >= 1
    /\ last.ret.cacheKeys < last.ret.totalKeys
    /\ \E s \in StorageTypes, k \in PrefixedKeys :
            /\ stores[s][k].kind = "json"
            /\ now > stores[s][k].expiresAt

(* The storages with backend s emptied *)
Emptied(s) == [stores EXCEPT ![s] = EmptyStorage]

(* C20: each operation reads and writes the selected backend only. For
   every call addressed to backend s (through its storage option or
   argument, localStorage when none is given), the other backend o keeps its
   contents, and the call returns and does to s what it would with o
   empty. *)
C20_BackendIsolation ==
    \A s \in StorageTypes :
        LET o == OtherStorage(s)
            Same(r, q) == /\ r.st[o] = stores[o]
                          /\ r.ret = q.ret
                          /\ r.st[s] = q.st[s]
        IN  /\ \A key \in Keys, data \in Payloads, thr \in BOOLEAN,
                  options \in {w \in WriteOptions : StorageOf(w) = s} :
                    Same(setCacheData(stores, key, data, options, now, thr),
                         setCacheData(Emptied(o), key, data, options, now,
                                      thr))
            /\ \A key \in Keys,
                  options \in {w \in ReadOptions : StorageOf(w) = s} :
                    /\ Same(getCacheData(stores, key, options, now),
                            getCacheData(Emptied(o), key, options, now))
                    /\ Same(hasValidCache(stores, key, options, now),
                            hasValidCache(Emptied(o), key, options, now))
            /\ \A key \in Keys :
                    Same(removeCacheData(stores, key, s),
                         removeCacheData(Emptied(o), key, s))
            /\ Same(clearAllCache(stores, s), clearAllCache(Emptied(o), s))
            /\ Same(getCacheStats(stores, s, now),
                    getCacheStats(Emptied(o), s, now))
            /\ Same(cleanupExpiredCache(stores, s, now),
                    cleanupExpiredCache(Emptied(o), s, now))

(* A cleanupExpiredCache of localStorage has deleted a key there while
   sessionStorage keeps an expired entry. *)
C20_Witness ==
    /\ last.op = "cleanup" /\ last.storage = "localStorage"
    /\ last.changed
    /\ stores["sessionStorage"][KeyA].kind = "json"
    /\ now > stores["sessionStorage"][KeyA].expiresAt

----------------------------------------------------------------------------
(* Properties of racing requests (checked under SpecRace) *)

Raced == stores[RaceStorage][RaceKey]

(* C17: last write wins. Once a setCacheData on the raced key has
   succeeded, what the backend holds under the key is exactly the entry the
   most recent successful set built, or nothing after a getCacheData evicted
   it; right after a successful set the entry is the one built from that
   call's data, version and ttl at the current instant, whatever was there
   before; and a getCacheData returns null or the payload of the entry the
   most recent successful set built. *)
C17_LastWriteWins ==
    /\ lastWritten # NoItem => Raced \in {lastWritten, NoItem}
    /\ (last.op = "set" /\ last.ret = TRUE) =>
            LET config == MergeConfig(last.options) IN
            /\ Raced = lastWritten
            /\ Raced.data = ToJSON(last.data)
            /\ Raced.version = config.version
            /\ Raced.timestamp = now
            /\ Raced.expiresAt = now + config.ttl
    /\ last.op = "get" =>
            \/ last.ret = JsNull
            \/ lastWritten # NoItem /\ last.ret = lastWritten.data

(* A getCacheData has returned the payload of a second set, made at a
   later instant than the first. *)
C17_Witness ==
    /\ nsets = 2
    /\ last.op = "get" /\ last.at = 140 /\ last.ret = JsStrA
    /\ lastWritten # NoItem
    /\ lastWritten.timestamp = 1

----------------------------------------------------------------------------
(* Properties of dbConnect (checked under SpecDb) *)

Pending(i) == promises[i] = "pending"

(* C4: however the dbConnect calls interleave at their await, at most one
   mongoose.connect attempt is in flight, exactly one has been initiated once
   a call has been made, and every caller that has returned got the same
   connection handle. *)
C4_SingleConnectionAttempt ==
    /\ Cardinality({i \in DOMAIN promises : Pending(i)}) <= 1
    /\ Len(promises) <= 1
    /\ (\E c \in Callers : calls[c] > 0) => Len(promises) = 1
    /\ \A c1, c2 \in Callers :
            (returned[c1] # NoConnection /\ returned[c2] # NoConnection)
                => returned[c1] = returned[c2]

(* Two callers are suspended on the same pending attempt. *)
C4_Witness ==
    \E c1, c2 \in Callers :
        /\ c1 # c2
        /\ pc[c1] = "awaiting" /\ pc[c2] = "awaiting"
        /\ awaited[c1] = awaited[c2]
        /\ Pending(awaited[c1])

(* The memoizer's Connected state: a dbConnect has come back from its await
   with the handle and cached it. *)
Connected == cached.connection # NoConnection

Fulfilled(i) == promises[i] = "fulfilled"

(* C13: Connected is absorbing. A connection is cached only once the
   attempt cached as promise has resolved, and it is that attempt's handle.
   From the resolution on no further attempt is initiated and the cached
   promise stays. Once the handle is cached, cached never changes again and
   every dbConnect call returns that handle at once. *)
C13_ConnectedIsAbsorbing ==
    /\ [](Connected =>
            /\ cached.promise # NoPromise
            /\ Fulfilled(cached.promise)
            /\ cached.connection = Handle(cached.promise))
    /\ [][(\E i \in DOMAIN promises : Fulfilled(i)) =>
            /\ promises' = promises
            /\ cached'.promise = cached.promise]_vars
    /\ [][Connected =>
            /\ cached' = cached
            /\ \A c \in Callers :
                    calls'[c] # calls[c] =>
                        /\ pc'[c] = "idle"
                        /\ returned'[c] = cached.connection]_vars

(* A caller has called dbConnect again after the connection was cached and
   got the cached handle. *)
C13_Witness ==
    /\ Connected
    /\ \E c \in Callers :
            /\ calls[c] >= 2
            /\ pc[c] = "idle"
            /\ returned[c] = cached.connection

Rejected == \E i \in DOMAIN promises : promises[i] = "rejected"

(* C14: when the pending attempt rejects, the process is terminated (under
   the event loop's fairness), cached.promise and cached.connection are both
   null when it is, and a dbConnect call that comes back from its await
   returns the handle of a resolved attempt, never null or another one. *)
C14_RejectionTerminatesTheProcess ==
    /\ [](exited =>
            /\ Rejected
            /\ cached.promise = NoPromise
            /\ cached.connection = NoConnection)
    /\ [][\A c \in Callers :
            (pc[c] = "awaiting" /\ pc'[c] # "awaiting") =>
                IF Fulfilled(awaited[c])
                THEN pc'[c] = "idle" /\ returned'[c] = Handle(awaited[c])
                ELSE exited' /\ returned' = returned]_vars
    /\ [](Rejected => \A c \in Callers : returned[c] = NoConnection)
    /\ (Rejected ~> exited)

(* The process has exited in the catch block of one caller while another
   was awaiting the same rejected attempt. *)
C14_Witness ==
    /\ exited
    /\ \E c1, c2 \in Callers :
            /\ pc[c1] = "exited"
            /\ pc[c2] = "awaiting"
            /\ awaited[c2] = awaited[c1]

----------------------------------------------------------------------------
(* Properties of the auth gate (checked under SpecAuth) *)

Protected(p) == StartsWith(p, "/dashboard") \/ StartsWith(p, "/profile")

(* C5: the authorized callback returns true for a path that starts with
   "/auth/", returns true iff a token is present for a path that starts with
   "/dashboard" or "/profile", and returns true for every other path;
   /dashboard/settings without a token is denied, /auth/login and
   /public/info without a token are allowed. *)
C5_AuthGateDecision ==
    decision.done =>
        /\ StartsWith(path, "/auth/") => decision.ret = TRUE
        /\ Protected(path) => (decision.ret = TRUE <=> token # NoToken)
        /\ (~StartsWith(path, "/auth/") /\ ~Protected(path))
                => decision.ret = TRUE
        /\ (path = "/dashboard/settings" /\ token = NoToken)
                => decision.ret = FALSE
        /\ (path \in {"/auth/login", "/public/info"} /\ token = NoToken)
                => decision.ret = TRUE

(* The callback has denied /dashboard/settings to a request without
   token. *)
C5_Witness ==
    /\ decision.done /\ decision.ret = FALSE
    /\ path = "/dashboard/settings" /\ token = NoToken

(* C19, as stated: the authorized callback denies every request without
   session token whose path the matcher selects. *)
C19_SelectedPathsNeedAToken ==
    (decision.done /\ Selected(path) /\ token = NoToken)
        => decision.ret = FALSE

====
